---- MODULE Spec2Model ----
(***************************************************************************)
(* Model of sseclient.py: the SSEClient stream reader (connect, pull,      *)
(* backoff, reconnect, split, sticky fields) and the Event value type      *)
(* (parse, dump).  Text is a sequence of one-character strings; bytes are  *)
(* a sequence of byte tokens, ASCII bytes being written as their           *)
(* character.                                                              *)
(***************************************************************************)
EXTENDS Integers, Sequences, FiniteSets

VARIABLES
    pc,        \* position of the caller / of __next__
    cfg,       \* constructor arguments
    buf,       \* self.buf
    bufTag,    \* per character of buf: connection it came from, staleness
    last_id,   \* self.last_id
    retry,     \* self.retry
    headers,   \* self.requests_kwargs["headers"]
    resp,      \* self.resp and self.resp_iterator (midchar: a chunk has ended
               \* inside a multi-byte character)
    decoder,   \* self.decoder (pending undecoded bytes)
    ret,       \* outcome of the most recent __next__ call
    nReq,      \* requests issued by requester.get
    nFail,     \* transport failures caught in __next__
    nSleep,    \* completed time.sleep calls
    nDone,     \* __next__ calls that left the while loop
    lastReq,   \* headers of the most recent request
    lastConn,  \* how the most recent _connect ended: ok, raise (get) or status
    lastSleep, \* argument (ms) of the most recent completed sleep
    failRetry, \* self.retry when the most recent failure was caught
    ev,        \* Event under round trip
    rt,        \* result of Event.parse(ev.dump())
    fl,        \* field lines of a message handed to Event.parse
    pe         \* per line-end convention: result of Event.parse

vars == <<pc, cfg, buf, bufTag, last_id, retry, headers, resp, decoder, ret,
          nReq, nFail, nSleep, nDone, lastReq, lastConn, lastSleep, failRetry, ev, rt,
                   fl, pe>>

(***************************************************************************)
(* Bounds of the model.                                                    *)
(***************************************************************************)
MaxRequests == 2      \* requests a run may issue (the first and reconnects)
ChunkSize == 3        \* the chunk_size argument of the constructor
MaxExtraBlank == 2    \* blank lines added after a message boundary

RetryDefault == 3000

(***************************************************************************)
(* Optional values: None is <<>>, a present value v is <<v>>.              *)
(***************************************************************************)
None == <<>>
Some(v) == <<v>>

CR == "\r"
LF == "\n"

\* Byte tokens of the two-byte UTF-8 character U+00F6 and the decoded
\* characters.
LEAD == "xC3"
CONT == "xB6"
OUML == "U+00F6"
REPL == "U+FFFD"

Min(a, b) == IF a <= b THEN a ELSE b

RECURSIVE Rep(_, _)
Rep(c, n) == IF n <= 0 THEN <<>> ELSE <<c>> \o Rep(c, n - 1)

RECURSIVE Join(_, _)
Join(lines, sep) ==
    IF lines = <<>> THEN <<>>
    ELSE IF Len(lines) = 1 THEN lines[1]
    ELSE lines[1] \o sep \o Join(Tail(lines), sep)

(***************************************************************************)
(* end_of_field and _event_complete.                                       *)
(***************************************************************************)
\* Length of the match of \r\n\r\n|\r\r|\n\n starting at position i (0: none).
end_of_field(s, i) ==
    IF i + 3 <= Len(s) /\ s[i] = CR /\ s[i+1] = LF /\ s[i+2] = CR /\ s[i+3] = LF
    THEN 4
    ELSE IF i + 1 <= Len(s) /\ s[i] = CR /\ s[i+1] = CR THEN 2
    ELSE IF i + 1 <= Len(s) /\ s[i] = LF /\ s[i+1] = LF THEN 2
    ELSE 0

\* a search for \r\n\r\n and \n\n only
event_complete_no_cr(s) ==
    \E i \in 1..Len(s) : end_of_field(s, i) > 0 /\ ~(s[i] = CR /\ s[i+1] = CR)

event_complete(s) == \E i \in 1..Len(s) : end_of_field(s, i) > 0

\* re.search / re.split(maxsplit=1): the leftmost match.
FirstBoundary(s) ==
    CHOOSE i \in 1..Len(s) :
        /\ end_of_field(s, i) > 0
        /\ \A j \in 1..(i - 1) : end_of_field(s, j) = 0

SplitHead(s) == SubSeq(s, 1, FirstBoundary(s) - 1)
SplitRest(s) ==
    LET i == FirstBoundary(s)
    IN SubSeq(s, i + end_of_field(s, i), Len(s))

(***************************************************************************)
(* Event                                                                   *)
(***************************************************************************)
sDATA == <<"d", "a", "t", "a">>
sEVENT == <<"e", "v", "e", "n", "t">>
sID == <<"i", "d">>
sRETRY == <<"r", "e", "t", "r", "y">>
sMESSAGE == <<"m", "e", "s", "s", "a", "g", "e">>

\* Event.__init__ defaults
NewEvent == [ok |-> TRUE, data |-> <<>>, event |-> sMESSAGE, id |-> None, retry |-> None]

Digits == <<"0", "1", "2", "3", "4", "5", "6", "7", "8", "9">>
IsDigit(c) == \E i \in 1..10 : Digits[i] = c
DigitVal(c) == (CHOOSE i \in 1..10 : Digits[i] = c) - 1

RECURSIVE StripSpaces(_)
StripSpaces(s) ==
    IF s = <<>> THEN s
    ELSE IF s[1] = " " THEN StripSpaces(Tail(s))
    ELSE IF s[Len(s)] = " " THEN StripSpaces(SubSeq(s, 1, Len(s) - 1))
    ELSE s

RECURSIVE DigitsValue(_, _)
DigitsValue(s, acc) ==
    IF s = <<>> THEN acc ELSE DigitsValue(Tail(s), 10 * acc + DigitVal(s[1]))

IntBody(v) ==
    LET t == StripSpaces(v)
    IN IF t # <<>> /\ t[1] \in {"-", "+"} THEN Tail(t) ELSE t

\* int(value): does it parse, and to what
int_ok(v) == IntBody(v) # <<>> /\ \A i \in 1..Len(IntBody(v)) : IsDigit(IntBody(v)[i])
int_value(v) ==
    LET t == StripSpaces(v)
    IN IF t[1] = "-" THEN 0 - DigitsValue(IntBody(v), 0) ELSE DigitsValue(IntBody(v), 0)

RECURSIVE NatToStr(_)
NatToStr(n) ==
    IF n < 10 THEN <<Digits[n + 1]>> ELSE NatToStr(n \div 10) \o <<Digits[(n % 10) + 1]>>

\* "%s" % integer
IntToStr(n) == IF n < 0 THEN <<"-">> \o NatToStr(0 - n) ELSE NatToStr(n)

\* a split that knows \r\n and \n only
RECURSIVE PatternSplitNoCR(_, _, _)
PatternSplitNoCR(raw, i, cur) ==
    IF i > Len(raw) THEN <<cur>>
    ELSE IF raw[i] = CR /\ i < Len(raw) /\ raw[i+1] = LF
         THEN <<cur>> \o PatternSplitNoCR(raw, i + 2, <<>>)
    ELSE IF raw[i] = LF
         THEN <<cur>> \o PatternSplitNoCR(raw, i + 1, <<>>)
    ELSE PatternSplitNoCR(raw, i + 1, Append(cur, raw[i]))

\* SPLIT_PATTERN.split(raw): \r\n is tried before \n and \r
RECURSIVE PatternSplit(_, _, _)
PatternSplit(raw, i, cur) ==
    IF i > Len(raw) THEN <<cur>>
    ELSE IF raw[i] = CR /\ i < Len(raw) /\ raw[i+1] = LF
         THEN <<cur>> \o PatternSplit(raw, i + 2, <<>>)
    ELSE IF raw[i] = LF \/ raw[i] = CR
         THEN <<cur>> \o PatternSplit(raw, i + 1, <<>>)
    ELSE PatternSplit(raw, i + 1, Append(cur, raw[i]))

splitlines(raw) == SelectSeq(PatternSplit(raw, 1, <<>>), LAMBDA l : l # <<>>)

\* sse_line_pattern: (?P<name>[^:]*):?( ?(?P<value>.*))?
NameLen(line) ==
    IF \E i \in 1..Len(line) : line[i] = ":"
    THEN (CHOOSE i \in 1..Len(line) :
              line[i] = ":" /\ \A j \in 1..(i - 1) : line[j] # ":") - 1
    ELSE Len(line)

LineName(line) == SubSeq(line, 1, NameLen(line))

LineValue(line) ==
    LET n == NameLen(line)
        afterColon == IF n < Len(line) THEN n + 2 ELSE n + 1
        start == IF afterColon <= Len(line) /\ line[afterColon] = " "
                 THEN afterColon + 1 ELSE afterColon
    IN SubSeq(line, start, Len(line))

\* a parse that ignores a retry value that is no integer
ParseLineLenient(line, msg) ==
    LET name == LineName(line)
        value == LineValue(line)
    IN CASE name = <<>> -> msg
         [] name = sDATA ->
              [msg EXCEPT !.data = IF msg.data # <<>>
                                   THEN msg.data \o <<LF>> \o value
                                   ELSE value]
         [] name = sEVENT -> [msg EXCEPT !.event = value]
         [] name = sID -> [msg EXCEPT !.id = Some(value)]
         [] name = sRETRY ->
              IF int_ok(value)
              THEN [msg EXCEPT !.retry = Some(int_value(value))]
              ELSE msg
         [] OTHER -> msg

\* one iteration of the loop of Event.parse, lines 198-221
ParseLine(line, msg) ==
    LET name == LineName(line)
        value == LineValue(line)
    IN CASE name = <<>> -> msg
         [] name = sDATA ->
              [msg EXCEPT !.data = IF msg.data # <<>>
                                   THEN msg.data \o <<LF>> \o value
                                   ELSE value]
         [] name = sEVENT -> [msg EXCEPT !.event = value]
         [] name = sID -> [msg EXCEPT !.id = Some(value)]
         [] name = sRETRY ->
              IF int_ok(value)
              THEN [msg EXCEPT !.retry = Some(int_value(value))]
              ELSE [msg EXCEPT !.ok = FALSE]
         [] OTHER -> msg

RECURSIVE ParseLines(_, _)
ParseLines(lines, msg) ==
    IF lines = <<>> \/ ~msg.ok THEN msg
    ELSE ParseLines(Tail(lines), ParseLine(Head(lines), msg))

\* Event.parse; ok = FALSE stands for the ValueError of int(value)
parse(raw) == ParseLines(splitlines(raw), NewEvent)

\* str.split("\n")
RECURSIVE SplitLF(_, _, _)
SplitLF(s, i, cur) ==
    IF i > Len(s) THEN <<cur>>
    ELSE IF s[i] = LF THEN <<cur>> \o SplitLF(s, i + 1, <<>>)
    ELSE SplitLF(s, i + 1, Append(cur, s[i]))

\* truth value of an optional text / an optional integer in "if x:"
TruthyText(o) == o # None /\ o[1] # <<>>
TruthyInt(o) == o # None /\ o[1] # 0

\* Event.dump
dump(e) ==
    LET idLine == IF TruthyText(e.id) THEN <<sID \o <<":", " ">> \o e.id[1]>> ELSE <<>>
        evLine == IF e.event # sMESSAGE
                  THEN <<sEVENT \o <<":", " ">> \o e.event>> ELSE <<>>
        reLine == IF TruthyInt(e.retry)
                  THEN <<sRETRY \o <<":", " ">> \o IntToStr(e.retry[1])>> ELSE <<>>
        dataLines == [k \in 1..Len(SplitLF(e.data, 1, <<>>)) |->
                         sDATA \o <<":", " ">> \o SplitLF(e.data, 1, <<>>)[k]]
    IN Join(idLine \o evLine \o reLine \o dataLines, <<LF>>) \o <<LF, LF>>

(***************************************************************************)
(* The incremental UTF-8 decoder with errors="replace": its state is the   *)
(* pending lead byte of an unfinished two-byte character.                  *)
(***************************************************************************)
RECURSIVE DecodeBytes(_, _, _)
DecodeBytes(pending, bytes, out) ==
    IF bytes = <<>> THEN [text |-> out, pending |-> pending]
    ELSE IF pending # <<>>
         THEN IF Head(bytes) = CONT
              THEN DecodeBytes(<<>>, Tail(bytes), Append(out, OUML))
              ELSE DecodeBytes(<<>>, bytes, Append(out, REPL))
    ELSE IF Head(bytes) = LEAD THEN DecodeBytes(<<LEAD>>, Tail(bytes), out)
    ELSE IF Head(bytes) = CONT THEN DecodeBytes(<<>>, Tail(bytes), Append(out, REPL))
    ELSE DecodeBytes(<<>>, Tail(bytes), Append(out, Head(bytes)))

\* A decoder that keeps no state between calls: an unfinished character at
\* the end of a chunk is replaced at once.
decode_stateless(dec, chunk) ==
    LET r == DecodeBytes(<<>>, chunk, <<>>)
    IN [text |-> IF r.pending # <<>> THEN Append(r.text, REPL) ELSE r.text,
        pending |-> <<>>]

\* self.decoder.decode(next_chunk)
decode(dec, chunk) == DecodeBytes(dec, chunk, <<>>)

(***************************************************************************)
(* Response bodies the server may send.                                    *)
(***************************************************************************)
bIdA == <<"i", "d", ":", "a">>
bIdB == <<"i", "d", ":", "b">>
bIdEmpty == <<"i", "d", ":">>
bDataX == <<"d", "a", "t", "a", ":", "x">>
bDataP == <<"d", "a", "t", "a", ":", "p">>
bDataA == <<"d", "a", "t", "a", ":", "a">>
bDataB == <<"d", "a", "t", "a", ":", "b">>
bDataU == <<"d", "a", "t", "a", ":", LEAD, CONT>>
bEventH == <<"e", "v", "e", "n", "t", ":", "h">>
bRetry7 == <<"r", "e", "t", "r", "y", ":", "7">>
bRetry0 == <<"r", "e", "t", "r", "y", ":", "0">>
bRetryNeg == <<"r", "e", "t", "r", "y", ":", "-", "5">>
bRetryBad == <<"r", "e", "t", "r", "y", ":", "z">>

\* id, then no id, then an empty id
BodyIds == bIdA \o <<LF, LF>> \o bDataX \o <<LF, LF>> \o bIdEmpty \o <<LF, LF>>
\* retry, then retry 0
BodyRetry == bRetry7 \o <<LF, LF>> \o bRetry0 \o <<LF, LF>>
\* a negative retry, then an unfinished line
BodyNeg == bRetryNeg \o <<LF, LF>> \o bDataP
\* a retry that is no integer
BodyBadRetry == bRetryBad \o <<LF, LF>> \o bDataX \o <<LF, LF>>
\* a message with a retry, an id and a retry that is no integer
BodyIdBadRetry ==
    bRetry7 \o <<LF>> \o bIdB \o <<LF>> \o bRetryBad \o <<LF, LF>> \o bDataX \o <<LF, LF>>
\* a two-byte character, \r\n and \r line ends
BodyUni == bDataU \o <<CR, LF, CR, LF>> \o bEventH \o <<CR, CR>>
\* a complete line followed by an unfinished one
BodyPartial == bDataX \o <<LF>> \o bDataP
\* line ends of different conventions next to each other
BodyMixed ==
    bDataX \o <<CR, LF, LF>> \o bDataA \o <<CR, CR, LF>> \o bDataB \o <<LF, LF>>
\* bytes that are no valid UTF-8: a lone continuation byte, a lone lead byte
BodyBadBytes == <<"d", "a", "t", "a", ":", CONT, LEAD, LF, LF>>
\* two messages, each boundary followed by k more blank lines
BodyExtra(k) == bDataA \o Rep(LF, 2 + k) \o bDataB \o Rep(LF, 2 + k)

FirstBodies ==
    {BodyIds, BodyRetry, BodyNeg, BodyBadRetry, BodyIdBadRetry, BodyUni, BodyPartial, BodyMixed,
     BodyBadBytes}
        \cup {BodyExtra(k) : k \in 0..MaxExtraBlank}

\* bodies of the responses to a reconnect
BodyY == <<"d", "a", "t", "a", ":", "y", LF, LF>>
ReconnectBodies == {BodyY, <<LF>>}

\* body of a response with a non-success status
ErrorBodies == {<<"e", LF, LF>>}

ConnectOutcomes(bodies) ==
    {[kind |-> "raise", body |-> <<>>, chunked |-> FALSE]}
        \cup {[kind |-> "ok", body |-> b, chunked |-> c] : b \in bodies, c \in BOOLEAN}
        \cup {[kind |-> "status", body |-> b, chunked |-> FALSE] : b \in ErrorBodies}

(***************************************************************************)
(* SSEClient                                                               *)
(***************************************************************************)
NoResp == [conn |-> 0, body |-> <<>>, pos |-> 0, chunked |-> FALSE, alive |-> FALSE,
           midchar |-> FALSE]
NoHeaders == [CacheControl |-> None, Accept |-> None, LastEventID |-> None]
NoRet == [kind |-> "none", msg |-> NewEvent, tainted |-> FALSE, conns |-> {}]
Raised(kind) == [kind |-> kind, msg |-> NewEvent, tainted |-> FALSE, conns |-> {}]

sNoCache == <<"no-cache">>
sEventStream == <<"text/event-stream">>

\* __init__, lines 52-58
init_headers(h) == [h EXCEPT !.CacheControl = Some(sNoCache), !.Accept = Some(sEventStream)]

\* a _connect that never sends the header
connect_headers_never(h, lid) == h

\* _connect, lines 66-67
connect_headers(h, lid) == IF TruthyText(lid) THEN [h EXCEPT !.LastEventID = lid] ELSE h

\* _connect, lines 71-76: requester.get either raises or yields a response
connect_resp(o, old, n) ==
    IF o.kind = "raise" THEN old
    ELSE [conn |-> n, body |-> o.body, pos |-> 0, chunked |-> o.chunked, alive |-> TRUE,
          midchar |-> FALSE]

\* _connect, lines 77-78
connect_decoder(o, old) == IF o.kind = "raise" THEN old ELSE <<>>

\* buf.rpartition("\n"): length of head + sep
TrimLen(s) ==
    IF \E i \in 1..Len(s) : s[i] = LF
    THEN CHOOSE i \in 1..Len(s) : s[i] = LF /\ \A j \in (i + 1)..Len(s) : s[j] # LF
    ELSE 0

\* index of the last line terminator of any convention (0: none)
LastTerminator(s) ==
    IF \E i \in 1..Len(s) : s[i] \in {CR, LF}
    THEN CHOOSE i \in 1..Len(s) :
             s[i] \in {CR, LF} /\ \A j \in (i + 1)..Len(s) : s[j] \notin {CR, LF}
    ELSE 0

\* lines 140-142
next_retry(msg, cur) == IF TruthyInt(msg.retry) THEN msg.retry[1] ELSE cur

\* lines 144-147
next_last_id(msg, cur) == IF TruthyText(msg.id) THEN msg.id ELSE cur

\* the text left when the stale characters are deleted
RECURSIVE Fresh(_, _)
Fresh(s, tags) ==
    IF s = <<>> THEN <<>>
    ELSE IF tags[1].stale THEN Fresh(Tail(s), Tail(tags))
    ELSE <<s[1]>> \o Fresh(Tail(s), Tail(tags))

InitialIds == {None, Some(<<>>), Some(<<"a">>)}

ClientInit ==
    /\ pc = "new"
    /\ cfg \in [last_id : InitialIds, retry : {RetryDefault}]
    /\ buf = <<>>
    /\ bufTag = <<>>
    /\ last_id = None
    /\ retry = RetryDefault
    /\ headers = NoHeaders
    /\ resp = NoResp
    /\ decoder = <<>>
    /\ ret = NoRet
    /\ nReq = 0
    /\ nFail = 0
    /\ nSleep = 0
    /\ nDone = 0
    /\ lastReq = NoHeaders
    /\ lastConn = "none"
    /\ lastSleep = 0
    /\ failRetry = 0

\* the three line-end conventions
Eols == {"crlf", "cr", "lf"}
Eol(e) == CASE e = "crlf" -> <<CR, LF>> [] e = "cr" -> <<CR>> [] OTHER -> <<LF>>
NoParse == [e \in Eols |-> None]

Init ==
    /\ ClientInit
    /\ ev = NewEvent
    /\ rt = None
    /\ fl = <<>>
    /\ pe = NoParse

\* SSEClient.__init__ with its call of _connect
Construct ==
    /\ pc = "new"
    /\ \E o \in ConnectOutcomes(FirstBodies) :
        /\ last_id' = cfg.last_id
        /\ retry' = cfg.retry
        /\ headers' = connect_headers(init_headers(headers), cfg.last_id)
        /\ lastReq' = headers'
        /\ nReq' = nReq + 1
        /\ resp' = connect_resp(o, resp, nReq + 1)
        /\ decoder' = connect_decoder(o, decoder)
        /\ lastConn' = o.kind
        /\ pc' = IF o.kind = "ok" THEN "idle" ELSE "ctor_failed"
    /\ buf' = <<>>
    /\ bufTag' = <<>>
    /\ UNCHANGED <<cfg, ret, nFail, nSleep, nDone, lastSleep, failRetry, ev, rt,
                   fl, pe>>

\* the caller calls next(client)
CallNext ==
    /\ pc = "idle"
    /\ pc' = "loop"
    /\ UNCHANGED <<cfg, buf, bufTag, last_id, retry, headers, resp, decoder, ret,
                   nReq, nFail, nSleep, nDone, lastReq, lastConn, lastSleep, failRetry, ev, rt,
                   fl, pe>>

\* sizes of the chunk the iterator may yield
ChunkSizes ==
    IF resp.chunked THEN 1..(Len(resp.body) - resp.pos)
    ELSE 1..Min(ChunkSize, Len(resp.body) - resp.pos)

\* lines 111-116: the iterator yields a non-empty chunk
PullChunk ==
    /\ pc = "loop"
    /\ ~event_complete(buf)
    /\ resp.alive
    /\ \E n \in ChunkSizes :
        LET d == decode(decoder, SubSeq(resp.body, resp.pos + 1, resp.pos + n))
        IN /\ buf' = buf \o d.text
           /\ bufTag' = bufTag \o [i \in 1..Len(d.text) |->
                                       [conn |-> resp.conn, stale |-> FALSE]]
           /\ decoder' = d.pending
           /\ resp' = [resp EXCEPT !.pos = resp.pos + n,
                                    !.midchar = resp.midchar \/ d.pending # <<>>]
    /\ UNCHANGED <<pc, cfg, last_id, retry, headers, ret, nReq, nFail, nSleep, nDone,
                   lastReq, lastConn, lastSleep, failRetry, ev, rt,
                   fl, pe>>

\* the exceptions the except clause of __next__ names
Caught == {"StopIteration", "RequestException", "EOFError", "IncompleteRead"}

\* can the transport fail this way now
CanFail(kind) ==
    CASE kind = "StopIteration" -> ~resp.alive \/ resp.pos = Len(resp.body)
      [] kind = "EOFError" -> resp.alive /\ resp.chunked
      [] OTHER -> resp.alive

\* a failure that may be caught while the buffer holds a complete message
PullFailAnytime ==
    /\ pc = "loop"
    /\ nReq < MaxRequests
    /\ nFail < MaxRequests
    /\ \E kind \in Caught :
        /\ CanFail(kind)
        /\ resp' = [resp EXCEPT !.alive = (kind = "EOFError")]
    /\ pc' = "sleep"
    /\ nFail' = nFail + 1
    /\ failRetry' = retry
    /\ bufTag' = [i \in 1..Len(buf) |->
                     IF i > LastTerminator(buf)
                     THEN [bufTag[i] EXCEPT !.stale = TRUE] ELSE bufTag[i]]
    /\ UNCHANGED <<cfg, buf, last_id, retry, headers, decoder, ret, nReq, nSleep,
                   nDone, lastReq, lastConn, lastSleep, ev, rt,
                   fl, pe>>

\* lines 113-124: the pull fails and the except clause is entered
PullFail ==
    /\ pc = "loop"
    /\ ~event_complete(buf)
    /\ nReq < MaxRequests
    /\ nFail < MaxRequests
    /\ \E kind \in Caught :
        /\ CanFail(kind)
        /\ resp' = [resp EXCEPT !.alive = (kind = "EOFError")]
    /\ pc' = "sleep"
    /\ nFail' = nFail + 1
    /\ failRetry' = retry
    /\ bufTag' = [i \in 1..Len(buf) |->
                     IF i > LastTerminator(buf)
                     THEN [bufTag[i] EXCEPT !.stale = TRUE] ELSE bufTag[i]]
    /\ UNCHANGED <<cfg, buf, last_id, retry, headers, decoder, ret, nReq, nSleep,
                   nDone, lastReq, lastConn, lastSleep, ev, rt,
                   fl, pe>>

\* line 125: time.sleep(self.retry / 1000.0); a negative length raises ValueError
Sleep ==
    /\ pc = "sleep"
    /\ IF retry < 0
       THEN /\ pc' = "idle"
            /\ ret' = Raised("sleep_error")
            /\ UNCHANGED <<nSleep, lastSleep>>
       ELSE /\ pc' = "connect"
            /\ nSleep' = nSleep + 1
            /\ lastSleep' = retry
            /\ UNCHANGED ret
    /\ UNCHANGED <<cfg, buf, bufTag, last_id, retry, headers, resp, decoder, nReq,
                   nFail, nDone, lastReq, lastConn, failRetry, ev, rt,
                   fl, pe>>

\* lines 126-132: _connect succeeds, the buffer is trimmed, the loop goes on
ReconnectOk ==
    /\ pc = "connect"
    /\ \E o \in ConnectOutcomes(ReconnectBodies) :
        /\ o.kind = "ok"
        /\ resp' = connect_resp(o, resp, nReq + 1)
        /\ decoder' = connect_decoder(o, decoder)
        /\ lastConn' = o.kind
    /\ headers' = connect_headers(headers, last_id)
    /\ lastReq' = headers'
    /\ nReq' = nReq + 1
    /\ buf' = SubSeq(buf, 1, TrimLen(buf))
    /\ bufTag' = SubSeq(bufTag, 1, TrimLen(buf))
    /\ pc' = "loop"
    /\ UNCHANGED <<cfg, last_id, retry, ret, nFail, nSleep, nDone, lastSleep,
                   failRetry, ev, rt,
                   fl, pe>>

\* a handler that goes back to sleeping when _connect raises
ReconnectFailsRetried ==
    /\ pc = "connect"
    /\ \E o \in ConnectOutcomes(ReconnectBodies) :
        /\ o.kind # "ok"
        /\ resp' = connect_resp(o, resp, nReq + 1)
        /\ decoder' = connect_decoder(o, decoder)
        /\ lastConn' = o.kind
    /\ headers' = connect_headers(headers, last_id)
    /\ lastReq' = headers'
    /\ nReq' = nReq + 1
    /\ pc' = "sleep"
    /\ ret' = ret
    /\ UNCHANGED <<cfg, buf, bufTag, last_id, retry, nFail, nSleep, nDone, lastSleep,
                   failRetry, ev, rt,
                   fl, pe>>

\* line 126: _connect raises inside the except clause; the error leaves __next__
ReconnectFails ==
    /\ pc = "connect"
    /\ \E o \in ConnectOutcomes(ReconnectBodies) :
        /\ o.kind # "ok"
        /\ resp' = connect_resp(o, resp, nReq + 1)
        /\ decoder' = connect_decoder(o, decoder)
        /\ lastConn' = o.kind
    /\ headers' = connect_headers(headers, last_id)
    /\ lastReq' = headers'
    /\ nReq' = nReq + 1
    /\ pc' = "idle"
    /\ ret' = Raised("connect_error")
    /\ UNCHANGED <<cfg, buf, bufTag, last_id, retry, nFail, nSleep, nDone, lastSleep,
                   failRetry, ev, rt,
                   fl, pe>>

\* lines 137-149: split at the first boundary, parse, update the sticky fields
ReturnEvent ==
    /\ pc = "loop"
    /\ event_complete(buf)
    /\ LET es == SplitHead(buf)
           tags == SubSeq(bufTag, 1, Len(es))
           msg == parse(es)
       IN /\ buf' = SplitRest(buf)
          /\ bufTag' = SubSeq(bufTag, Len(buf) - Len(SplitRest(buf)) + 1, Len(buf))
          /\ IF msg.ok
             THEN /\ retry' = next_retry(msg, retry)
                  /\ last_id' = next_last_id(msg, last_id)
                  /\ ret' = [kind |-> "event", msg |-> msg,
                             tainted |-> (parse(Fresh(es, tags)) # msg),
                             conns |-> {tags[i].conn : i \in 1..Len(tags)}]
             ELSE /\ ret' = Raised("parse_error")
                  /\ UNCHANGED <<retry, last_id>>
    /\ pc' = "idle"
    /\ nDone' = nDone + 1
    /\ UNCHANGED <<cfg, headers, resp, decoder, nReq, nFail, nSleep, lastReq, lastConn,
                   lastSleep, failRetry, ev, rt,
                   fl, pe>>

Next ==
    \/ Construct
    \/ CallNext
    \/ PullChunk
    \/ PullFail
    \/ Sleep
    \/ ReconnectOk
    \/ ReconnectFails
    \/ ReturnEvent

Spec == Init /\ [][Next]_vars

\* the steps of the while loop of __next__, lines 111-132
Loops == PullChunk \/ PullFail \/ Sleep \/ ReconnectOk \/ ReconnectFails

\* the while loop is left, lines 111 and 137-149: the step ReturnEvent, seen
\* by its guard and its effect on pc
LeavesLoop == pc = "loop" /\ event_complete(buf) /\ pc' = "idle"

\* a caller may stop calling next(); a call that was made keeps running
SpecLive == Init /\ [][Next]_vars /\ WF_vars(Loops) /\ WF_pc(LeavesLoop)

(***************************************************************************)
(* Round trip of Event.dump and Event.parse                                *)
(***************************************************************************)
RoundTripEvents ==
    [ok : {TRUE},
     data : {<<>>, <<"x">>, <<"x", LF, "y">>, <<LF, "y">>, <<"x", " ", "y">>},
     event : {sMESSAGE, <<"h">>, <<>>},
     id : {None, Some(<<>>), Some(<<"a">>), Some(<<"a", ":", "b">>)},
     retry : {None, Some(0), Some(7), Some(10000)}]

InitRT ==
    /\ ClientInit
    /\ cfg.last_id = None
    /\ ev \in RoundTripEvents
    /\ rt = None
    /\ fl = <<>>
    /\ pe = NoParse

\* m2 = E.parse(m1.dump())
RoundTrip ==
    /\ rt = None
    /\ rt' = Some(parse(dump(ev)))
    /\ UNCHANGED <<pc, cfg, buf, bufTag, last_id, retry, headers, resp, decoder, ret,
                   nReq, nFail, nSleep, nDone, lastReq, lastConn, lastSleep,
                   failRetry, ev, fl, pe>>

NextRT == RoundTrip

SpecRT == InitRT /\ [][NextRT]_vars

(***************************************************************************)
(* Event.parse on a sequence of field lines under each line-end convention *)
(***************************************************************************)
MaxLines == 2         \* field lines in a message handed to Event.parse

bEventHello == <<"e", "v", "e", "n", "t", ":", " ", "h", "e", "l", "l", "o">>
bDataEol == <<"d", "a", "t", "a", ":", " ", "e", "o", "l">>
bDataEmpty == <<"d", "a", "t", "a", ":">>
bComment == <<":", "c">>
bNoColon == <<"i", "d">>

FieldLines ==
    {bEventHello, bDataEol, bDataEmpty, bDataB, bIdA, bRetry7, bRetryBad, bComment,
     bNoColon, <<>>}

FieldLineSeqs == UNION {[1..n -> FieldLines] : n \in 0..MaxLines}

\* every line followed by the line end
RECURSIVE Terminated(_, _)
Terminated(lines, eol) ==
    IF lines = <<>> THEN <<>>
    ELSE Head(lines) \o eol \o Terminated(Tail(lines), eol)

InitParse ==
    /\ ClientInit
    /\ cfg.last_id = None
    /\ ev = NewEvent
    /\ rt = None
    /\ fl \in FieldLineSeqs
    /\ pe = NoParse

\* m = E.parse('...%s...%s' % (eol, eol))
ParseEol ==
    /\ \E e \in Eols :
        /\ pe[e] = None
        /\ pe' = [pe EXCEPT ![e] = Some(parse(Terminated(fl, Eol(e))))]
    /\ UNCHANGED <<pc, cfg, buf, bufTag, last_id, retry, headers, resp, decoder, ret,
                   nReq, nFail, nSleep, nDone, lastReq, lastConn, lastSleep,
                   failRetry, ev, rt, fl>>

NextParse == ParseEol

SpecParse == InitParse /\ [][NextParse]_vars

(***************************************************************************)
(* Properties                                                              *)
(***************************************************************************)
Constructed == pc \notin {"new", "ctor_failed"}

\* a step in which __next__ returns an Event
Returns == nDone' = nDone + 1 /\ ret'.kind = "event"

\* a step in which requester.get is called
Connects == nReq' = nReq + 1

\* C1: a transport failure is never surfaced by next(): every call of next()
\* ends with a returned Event, a connect-time failure or the parse failure of
\* an invalid retry value.
C1_OnlyOutcomes == ret.kind \in {"none", "event", "connect_error", "parse_error"}

\* C2: a connect attempt that fails is fatal and is not retried: in the
\* constructor the error leaves the constructor, at a reconnect it leaves
\* next(), and no sleep is made for it; every sleep answers a transport
\* failure and every request after the first follows a sleep of its own.
C2_ConnectFailureFatal ==
    /\ [][(Connects /\ lastConn' # "ok") =>
              /\ IF pc = "new" THEN pc' = "ctor_failed"
                 ELSE pc' = "idle" /\ ret'.kind = "connect_error"
              /\ nSleep' = nSleep
              /\ nFail' = nFail]_vars
    /\ [](nSleep <= nFail /\ nReq <= 1 + nSleep)

\* a reconnect has failed and the error has left next()
C2_Witness == pc = "idle" /\ ret.kind = "connect_error" /\ nReq = 2 /\ lastConn # "ok"

\* C3: last_id is the id of the most recently returned message that carried an
\* id field (the configured value if none did): a returned message with an id
\* field overwrites it, and nothing else changes it.
C3_LastIdSticky ==
    [][IF Returns /\ ret'.msg.id # None THEN last_id' = ret'.msg.id
       ELSE IF pc = "new" THEN last_id' = cfg.last_id
       ELSE last_id' = last_id]_vars

\* C4: retry starts at the configured value, is overwritten by every returned
\* message that carries a retry field, and is changed by nothing else.
C4_RetrySticky ==
    [][IF Returns /\ ret'.msg.retry # None THEN retry' = ret'.msg.retry[1]
       ELSE IF pc = "new" THEN retry' = cfg.retry
       ELSE retry' = retry]_vars

\* the last_id a connect step works with
ConnectId == IF pc = "new" THEN cfg.last_id ELSE last_id

\* C5 as stated: every request carries Cache-Control: no-cache and Accept:
\* text/event-stream, a Last-Event-ID equal to last_id whenever last_id is set
\* (is not None), and no Last-Event-ID while last_id has never been set.
C5_HeaderWheneverSet ==
    [][Connects =>
           /\ lastReq'.CacheControl = Some(sNoCache)
           /\ lastReq'.Accept = Some(sEventStream)
           /\ lastReq'.LastEventID = ConnectId]_vars

\* C5 amended: every request carries Cache-Control: no-cache and Accept:
\* text/event-stream, and a Last-Event-ID equal to last_id whenever last_id is
\* a non-empty text; while last_id is unset or the empty text, no
\* Last-Event-ID is sent.
C5_HeaderWhenNonEmpty ==
    [][Connects =>
           /\ lastReq'.CacheControl = Some(sNoCache)
           /\ lastReq'.Accept = Some(sEventStream)
           /\ lastReq'.LastEventID =
                  IF TruthyText(ConnectId) THEN ConnectId ELSE None]_vars

\* a reconnect has sent the id learned from a message of the first connection
C5_Witness ==
    /\ nReq = 2
    /\ cfg.last_id = None
    /\ last_id = Some(<<"a">>)
    /\ lastReq.LastEventID = Some(<<"a">>)

\* C6: the text of a line that was unfinished in the buffer when a transport
\* failure occurred is part of no Event returned later, whatever the outcome
\* of the reconnect attempt.
C6_PartialDiscarded == ret.kind = "event" => ~ret.tainted

\* the messages of BodyExtra(k)
ExtraMessages == <<parse(bDataA), parse(bDataB)>>

\* C7: when each boundary of a stream of n non-empty messages is followed by
\* additional blank lines, next() returns exactly those n messages in order
\* and no Event with all-default fields.
C7_NoSpuriousEmpty ==
    \A k \in 0..MaxExtraBlank :
        (Constructed /\ nFail = 0 /\ resp.body = BodyExtra(k) /\ nDone > 0) =>
            /\ nDone <= Len(ExtraMessages)
            /\ ret.kind = "event"
            /\ ret.msg = ExtraMessages[nDone]
            /\ ret.msg # NewEvent

\* codecs.decode of the whole body
DecodeAll(bytes) ==
    LET r == DecodeBytes(<<>>, bytes, <<>>)
    IN IF r.pending # <<>> THEN Append(r.text, REPL) ELSE r.text

\* the boundary-delimited segments of a text
RECURSIVE Segments(_)
Segments(text) ==
    IF event_complete(text)
    THEN <<SplitHead(text)>> \o Segments(SplitRest(text))
    ELSE <<>>

\* C8: in a run without transport failure the outcome of the k-th call of
\* next() is the parse of the k-th boundary-delimited segment of the whole
\* decoded body, however the body is cut into chunks, and once the body is
\* read every segment has been returned.
C8_ChunkingIndependent ==
    (Constructed /\ nFail = 0) =>
        LET segs == Segments(DecodeAll(resp.body))
        IN /\ nDone <= Len(segs)
           /\ nDone > 0 =>
                  IF parse(segs[nDone]).ok
                  THEN ret.kind = "event" /\ ret.msg = parse(segs[nDone])
                  ELSE ret.kind = "parse_error"
           /\ (pc = "loop" /\ ~event_complete(buf) /\ resp.pos = Len(resp.body)) =>
                  nDone = Len(segs)

\* a body whose two-byte character was cut by a chunk end has been read to
\* its second message
C8_Witness ==
    /\ nFail = 0
    /\ resp.midchar
    /\ nDone = 2
    /\ ret.kind = "event"

\* C9: Event.parse(e.dump()) has e's data, event, id and retry, for every
\* Event e (id unset or any text, retry unset or any non-negative integer).
C9_RoundTrip ==
    rt # None =>
        /\ rt[1].ok
        /\ rt[1].data = ev.data
        /\ rt[1].event = ev.event
        /\ rt[1].id = ev.id
        /\ rt[1].retry = ev.retry

\* C10: every transport failure caught in next() is followed by exactly one
\* sleep of the retry value at the time of the failure and then by exactly
\* one connect; requests are issued only by the constructor and after a
\* failure.
C10_BackoffThenConnect ==
    /\ nSleep = nFail - (IF pc = "sleep" THEN 1 ELSE 0)
    /\ nReq = (IF pc = "new" THEN 0 ELSE 1) + nSleep - (IF pc = "connect" THEN 1 ELSE 0)
    /\ nSleep > 0 => lastSleep = failRetry

\* a message in which some retry line has a value that int() rejects
HasInvalidRetry(es) ==
    \E i \in 1..Len(splitlines(es)) :
        /\ LineName(splitlines(es)[i]) = sRETRY
        /\ ~int_ok(LineValue(splitlines(es)[i]))

\* a step in which __next__ leaves the loop and works on a message
Leaves == pc = "loop" /\ nDone' = nDone + 1

\* C11: a message whose retry value is no base-10 integer makes Event.parse
\* fail; the call of next() that meets it ends with that failure, returns no
\* Event, and leaves last_id and retry as they were.
C11_InvalidRetryPropagates ==
    [][(Leaves /\ HasInvalidRetry(SplitHead(buf))) =>
           /\ ret'.kind = "parse_error"
           /\ last_id' = last_id
           /\ retry' = retry]_vars

\* the message "retry:7, id:b, retry:z" has ended a call of next()
C11_Witness ==
    /\ resp.body = BodyIdBadRetry
    /\ nDone = 1
    /\ ret.kind = "parse_error"
    /\ last_id = cfg.last_id
    /\ retry = cfg.retry

\* C12: for every sequence of field lines, Event.parse gives the same result
\* (the same Event, or the same failure) whether the lines are ended with
\* \r\n, with \r or with \n.
C12_EolIndependent ==
    \A e1 \in Eols : \A e2 \in Eols :
        (pe[e1] # None /\ pe[e2] # None) => pe[e1] = pe[e2]

\* 'event: hello' eol 'data: eol' eol has been parsed under all three
\* conventions
C12_Witness ==
    /\ fl = <<bEventHello, bDataEol>>
    /\ \A e \in Eols :
           /\ pe[e] # None
           /\ pe[e][1].event = <<"h", "e", "l", "l", "o">>
           /\ pe[e][1].data = <<"e", "o", "l">>

\* C13: the buffer and the decoder are reset on every (re)connect: right
\* after a connect that completes, the first or a later one, the buffer is
\* empty and the decoder holds no pending bytes.
C13_ResetOnConnect ==
    [][(Connects /\ lastConn' = "ok") => (buf' = <<>> /\ decoder' = <<>>)]_vars

\* C14: when a transport failure has been handled (sleep, reconnect, trim)
\* the buffer is the longest prefix of the buffer before the failure that
\* ends with a line terminator of any convention (\r\n, \r, \n), the empty
\* text if there is no such prefix.
C14_TrimToLastTerminator ==
    [][(pc = "connect" /\ pc' = "loop") =>
           buf' = SubSeq(buf, 1, LastTerminator(buf))]_vars

\* the values of the data lines of a message, in order
RECURSIVE DataValues(_)
DataValues(lines) ==
    IF lines = <<>> THEN <<>>
    ELSE IF LineName(Head(lines)) = sDATA
         THEN <<LineValue(Head(lines))>> \o DataValues(Tail(lines))
    ELSE DataValues(Tail(lines))

\* C15: the data of a parsed Event is the values of all data lines of the
\* message, in order, joined by \n (an empty value included); it is the
\* empty text when the message has no data line.
C15_DataJoin ==
    \A e \in Eols :
        (pe[e] # None /\ pe[e][1].ok) => pe[e][1].data = Join(DataValues(fl), <<LF>>)

\* does text t occur in s at position i
OccursAt(s, t, i) == i + Len(t) - 1 <= Len(s) /\ SubSeq(s, i, i + Len(t) - 1) = t

\* the three doubled terminators, as texts
Doubles == {<<CR, LF, CR, LF>>, <<CR, CR>>, <<LF, LF>>}

DoubleAt(s, i) == \E d \in Doubles : OccursAt(s, d, i)
HasDouble(s) == \E i \in 1..Len(s) : DoubleAt(s, i)

\* the line ends of a text, read left to right, \r\n being one line end:
\* a sequence of [at, kind]
RECURSIVE LineEnds(_, _)
LineEnds(s, i) ==
    IF i > Len(s) THEN <<>>
    ELSE IF s[i] = CR /\ i < Len(s) /\ s[i+1] = LF
         THEN <<[at |-> i, kind |-> "crlf", len |-> 2]>> \o LineEnds(s, i + 2)
    ELSE IF s[i] = CR THEN <<[at |-> i, kind |-> "cr", len |-> 1]>> \o LineEnds(s, i + 1)
    ELSE IF s[i] = LF THEN <<[at |-> i, kind |-> "lf", len |-> 1]>> \o LineEnds(s, i + 1)
    ELSE LineEnds(s, i + 1)

\* two line ends of one convention that follow each other directly
SameConventionDouble(s) ==
    LET le == LineEnds(s, 1)
    IN \E k \in 1..(Len(le) - 1) :
           /\ le[k+1].at = le[k].at + le[k].len
           /\ le[k+1].kind = le[k].kind

\* C16 as stated: next() finds a message boundary in the buffer exactly when
\* the buffer holds two line ends of one and the same convention next to
\* each other; line ends of different conventions next to each other are no
\* boundary.
C16_SameConventionOnly ==
    [][pc = "loop" => (Leaves <=> SameConventionDouble(buf))]_vars

\* C16 amended: next() finds a message boundary exactly when the buffer
\* contains one of the texts \r\n\r\n, \r\r, \n\n, whatever line ends they
\* come from, and splits at the leftmost one: the message is the text before
\* it, the buffer keeps the text after it.
C16_AnyDoubledText ==
    [][pc = "loop" =>
           /\ Leaves <=> HasDouble(buf)
           /\ Leaves =>
                  \E i \in 1..Len(buf) : \E d \in Doubles :
                      /\ OccursAt(buf, d, i)
                      /\ \A j \in 1..(i - 1) : ~DoubleAt(buf, j)
                      /\ buf' = SubSeq(buf, i + Len(d), Len(buf))
                      /\ ret'.kind = "event" => ret'.msg = parse(SubSeq(buf, 1, i - 1))]_vars

\* the three messages of BodyMixed have been returned one by one
C16_Witness ==
    /\ resp.body = BodyMixed
    /\ nFail = 0
    /\ nDone = 3
    /\ ret.kind = "event"
    /\ ret.msg.data = <<"b">>

\* length of the text a return takes out of the buffer: message and boundary
ConsumedLen(s) == Len(s) - Len(SplitRest(s))

\* C17: every returned Event is built from text of one single connection:
\* no Event combines text buffered before a transport failure with text
\* received after the reconnect.
C17_SingleConnection ==
    [][Returns =>
           \A i \in 1..ConsumedLen(buf) : \A j \in 1..ConsumedLen(buf) :
               bufTag[i].conn = bufTag[j].conn]_vars

\* C18: retry is never negative when the configured value is not: no message
\* received drives it below zero.
C18_RetryNonNegative == cfg.retry >= 0 => retry >= 0

\* is p a prefix of s
IsPrefix(p, s) == Len(p) <= Len(s) /\ SubSeq(s, 1, Len(p)) = p

\* a step in which a chunk is pulled from the response
Pulls == pc = "loop" /\ pc' = "loop" /\ resp'.pos > resp.pos

\* C19: a transport failure discards no complete message: whenever next()
\* pulls a chunk, catches a failure, sleeps or reconnects, the buffer holds
\* no message boundary, and the reconnect only cuts the end of that
\* boundary-free buffer.
C19_NoCompleteMessageDropped ==
    /\ [](pc \in {"sleep", "connect"} => ~HasDouble(buf))
    /\ [][(Pulls \/ nFail' = nFail + 1) => ~HasDouble(buf)]_vars
    /\ [][(pc = "connect" /\ Connects) => IsPrefix(buf', buf)]_vars

\* a failure was caught after a message had been returned, with the start of
\* the next message in the buffer
C19_Witness ==
    /\ pc = "connect"
    /\ nDone >= 1
    /\ ret.kind = "event"
    /\ buf # <<>>
    /\ ~HasDouble(buf)

\* a call of next() is under way
Running == pc \in {"loop", "sleep", "connect"}

\* C20: a call of next() ends only by handing a message over (an Event, or
\* the parse failure of an invalid retry) unless a connect attempt fails: the
\* end of the response stream and the other transport failures never end it,
\* it goes on sleeping and reconnecting; and once the buffer holds a
\* message boundary the call ends.
C20_ReturnsOrLoops ==
    /\ [][(Running /\ pc' = "idle") =>
              (ret'.kind \in {"event", "parse_error"} \/ lastConn' # "ok")]_vars
    /\ (pc = "loop" /\ HasDouble(buf)) ~> (pc = "idle")

====
